---- MODULE Spec2Model ----
(***************************************************************************)
(* Tendly dashboard (src/Home.py): the cached loader, the filter step, the *)
(* logarithmic cost bucketing, the summary statistics and the category     *)
(* ranking of one Streamlit script run ("render").                         *)
(*                                                                         *)
(* Costs are powers of ten, 10^0 .. 10^MaxExp.  On that domain log10 is    *)
(* exact, np.linspace is exact rational arithmetic, and a bucket edge      *)
(* 10 ** (L / n) is kept as the pair [num |-> L, den |-> n]: comparisons   *)
(* of a cost with an edge are comparisons of exponents, and the edge's     *)
(* digits (for the labels) come from a table of 10^(j/100).                *)
(***************************************************************************)
EXTENDS Integers, Sequences, FiniteSets, TLC

(* ------------------------------ bounds -------------------------------- *)
\* largest cost exponent: costs are 10^0 .. 10^MaxExp
MaxExp == 6
\* largest number of rows of a table handed to create_cost_buckets or to the ranking on its own
MaxRows == 3
\* largest number of rows of the data source's table in a render
MaxDbRows == 2
\* seconds per tick of the clock: half the staleness window
TickSeconds == 300
\* largest number of rows of a table handed to the filters on their own
MaxFilterRows == 2

(* ------------------------- program constants -------------------------- *)
\* @st.cache_data(ttl=600)
CacheTtl == 600
\* create_cost_buckets(filtered_df, 50)
NumBuckets == 50
\* .head(10)
TopN == 10
\* start < 1000 / start < 1000000, as exponents of ten
LogThousand == 3
LogMillion == 6

Null == "null"
ALL == "All"
NoBucket == -1

RECURSIVE Pow10(_)
Pow10(k) == IF k = 0 THEN 1 ELSE 10 * Pow10(k - 1)

\* np.log10 on a power of ten
RECURSIVE Log10(_)
Log10(c) == IF c < 10 THEN 0 ELSE 1 + Log10(c \div 10)

Costs == {Pow10(k) : k \in 0..MaxExp}

\* floor(10^(j/100) * 10^4) for j = 0 .. 99: the digits of 10 ** x
FracScale == 10000
Pow10Frac == <<
    10000, 10232, 10471, 10715, 10964, 11220, 11481, 11748, 12022, 12302,
    12589, 12882, 13182, 13489, 13803, 14125, 14454, 14791, 15135, 15488,
    15848, 16218, 16595, 16982, 17378, 17782, 18197, 18620, 19054, 19498,
    19952, 20417, 20892, 21379, 21877, 22387, 22908, 23442, 23988, 24547,
    25118, 25703, 26302, 26915, 27542, 28183, 28840, 29512, 30199, 30902,
    31622, 32359, 33113, 33884, 34673, 35481, 36307, 37153, 38018, 38904,
    39810, 40738, 41686, 42657, 43651, 44668, 45708, 46773, 47863, 48977,
    50118, 51286, 52480, 53703, 54954, 56234, 57543, 58884, 60255, 61659,
    63095, 64565, 66069, 67608, 69183, 70794, 72443, 74131, 75857, 77624,
    79432, 81283, 83176, 85113, 87096, 89125, 91201, 93325, 95499, 97723 >>

(* ------------------------------ tables -------------------------------- *)
Row(c, s, p, n) ==
    [estimated_cost |-> c, procurement_sector_code |-> s,
     procedure_type_code |-> p, primary_cpv_name |-> n]

Column(df, col) == [j \in 1..Len(df) |-> df[j][col]]

\* ORDER BY estimated_cost DESC: what the loader returns is sorted
SortedDesc(df) ==
    \A j \in 1..Len(df) - 1 : df[j].estimated_cost >= df[j + 1].estimated_cost

SeqsUpTo(S, n) == UNION {[1..m -> S] : m \in 0..n}

SeqMin(s) == CHOOSE x \in {s[j] : j \in 1..Len(s)} : \A j \in 1..Len(s) : x <= s[j]
SeqMax(s) == CHOOSE x \in {s[j] : j \in 1..Len(s)} : \A j \in 1..Len(s) : x >= s[j]

RECURSIVE SeqSum(_)
SeqSum(s) == IF s = <<>> THEN 0 ELSE Head(s) + SeqSum(Tail(s))

(* ------------------------ create_cost_buckets ------------------------- *)
\* np.linspace(start, stop, num): point i is start + i * (stop - start) / (num - 1),
\* kept as a numerator over the common denominator num - 1
Linspace(start, stop, num) ==
    [i \in 1..num |-> [num |-> start * (num - 1) + (i - 1) * (stop - start),
                       den |-> num - 1]]

EdgeLt(e, f) == e.num < f.num
\* cost < edge, cost = edge, for the edge 10 ** (num / den)
CostLtEdge(c, e) == Log10(c) * e.den < e.num
CostEqEdge(c, e) == Log10(c) * e.den = e.num

\* the mantissa digits and the decimal exponent of the edge 10 ** (num / den)
EdgeHundredths(e) == (e.num * 100) \div e.den
EdgeDigits(e) == Pow10Frac[(EdgeHundredths(e) % 100) + 1]
EdgeExp(e) == EdgeHundredths(e) \div 100

\* f"{x:.0f}" of digits * 10^k / FracScale
RoundUnits(digits, k) == (digits * Pow10(k) * 2 + FracScale) \div (2 * FracScale)

\* lines 95-100 (and 102-107): the text of one edge, as <<suffix, number>>;
\* the number of an "M" text is in tenths (one fractional digit)
FormatEdge(e) ==
    IF e.num < LogThousand * e.den
    THEN <<"", RoundUnits(EdgeDigits(e), EdgeExp(e))>>
    ELSE IF e.num < LogMillion * e.den
    THEN <<"K", RoundUnits(EdgeDigits(e), EdgeExp(e) - LogThousand)>>
    ELSE <<"M", RoundUnits(EdgeDigits(e), EdgeExp(e) - LogMillion + 1)>>

BucketLabels(bucket_edges) ==
    [i \in 1..Len(bucket_edges) - 1 |->
        <<FormatEdge(bucket_edges[i]), FormatEdge(bucket_edges[i + 1])>>]

\* bins.searchsorted(x, side="left"): how many bins lie strictly below x
SearchSortedRight(bins, x) ==
    Cardinality({i \in 1..Len(bins) : ~CostLtEdge(x, bins[i])})
SearchSorted(bins, x) ==
    Cardinality({i \in 1..Len(bins) : ~CostLtEdge(x, bins[i]) /\ ~CostEqEdge(x, bins[i])})

HasDuplicates(s) == \E i, j \in 1..Len(s) : i < j /\ s[i] = s[j]

\* the bucket code of one value: ids, include_lowest, na_mask
CutCode(bins, x) ==
    LET ids == IF CostEqEdge(x, bins[1]) THEN 1 ELSE SearchSorted(bins, x)
    IN  IF ids = 0 \/ ids = Len(bins) THEN NoBucket ELSE ids - 1

\* pd.cut(x, bins=bins, labels=labels, include_lowest=True), with the defaults
\* right=True, duplicates="raise", ordered=True
Cut(x, bins, labels) ==
    IF \E i \in 1..Len(bins) - 1 : EdgeLt(bins[i + 1], bins[i])
    THEN [raised |-> "ValueError: bins must increase monotonically", codes |-> <<>>]
    ELSE IF HasDuplicates(bins) /\ Len(bins) # 2
    THEN [raised |-> "ValueError: Bin edges must be unique", codes |-> <<>>]
    ELSE IF HasDuplicates(labels)
    THEN [raised |-> "ValueError: labels must be unique if ordered=True", codes |-> <<>>]
    ELSE IF Len(labels) # Len(bins) - 1
    THEN [raised |-> "ValueError: Bin labels must be one fewer than the number of bin edges",
          codes |-> <<>>]
    ELSE [raised |-> "", codes |-> [j \in 1..Len(x) |-> CutCode(bins, x[j])]]

create_cost_buckets(df, num_buckets) ==
    LET cost == Column(df, "estimated_cost")
        min_cost == SeqMin(cost)
        max_cost == SeqMax(cost)
        log_min == Log10(min_cost)
        log_max == Log10(max_cost)
        log_edges == Linspace(log_min, log_max, num_buckets + 1)
        bucket_edges == log_edges
        bucket_labels == BucketLabels(bucket_edges)
        cut == Cut(cost, bucket_edges, bucket_labels)
    IN  [raised |-> cut.raised, cost_bucket |-> cut.codes,
         bucket_edges |-> bucket_edges, bucket_labels |-> bucket_labels]

\* filtered_df['cost_bucket'].value_counts().sort_index(): one count per label
BucketCounts(cost_bucket, num_buckets) ==
    [i \in 1..num_buckets |->
        Cardinality({j \in 1..Len(cost_bucket) : cost_bucket[j] = i - 1})]

(* ------------------------------ filters ------------------------------- *)
\* df[(df['estimated_cost'] >= min_cost) & (df['estimated_cost'] <= max_cost)]
FilterCost(df, min_cost, max_cost) ==
    LET Keep(r) == r.estimated_cost >= min_cost /\ r.estimated_cost <= max_cost
    IN  SelectSeq(df, Keep)

\* a comparison of a missing value (None / NaN) with a value is False
EqualsNa(field, value) == field = Null \/ field = value
Equals(field, value) == field # Null /\ field = value

\* if selected_sector != 'All': filtered_df[... == selected_sector]
FilterSector(df, selected_sector) ==
    LET Keep(r) == Equals(r.procurement_sector_code, selected_sector)
    IN  IF selected_sector # ALL THEN SelectSeq(df, Keep) ELSE df

\* if selected_procedure != 'All': filtered_df[... == selected_procedure]
FilterProcedure(df, selected_procedure) ==
    LET Keep(r) == Equals(r.procedure_type_code, selected_procedure)
    IN  IF selected_procedure # ALL THEN SelectSeq(df, Keep) ELSE df

\* lines 153-163, in the order main applies them
ApplyFilters(df, min_cost, max_cost, selected_sector, selected_procedure) ==
    FilterProcedure(FilterSector(FilterCost(df, min_cost, max_cost), selected_sector),
                    selected_procedure)

\* the options of a selectbox: ['All'] + sorted(df[col].dropna().unique())
Options(df, col) == {ALL} \cup ({df[j][col] : j \in 1..Len(df)} \ {Null})

(* ------------------------- summary statistics ------------------------- *)
\* lines 176, 188, 198: sum() of no rows is 0, mean() and median() of no rows
\* are NaN
SummaryStatistics(df) ==
    [total_value |-> SeqSum(Column(df, "estimated_cost")),
     avg_cost_nan |-> Len(df) = 0,
     median_cost_nan |-> Len(df) = 0]

(* -------------------------- category ranking -------------------------- *)
\* groupby('primary_cpv_name') with the defaults dropna=True: a row whose
\* key is missing belongs to no group
GroupKeysNa(df) == {df[j].primary_cpv_name : j \in 1..Len(df)}
GroupKeys(df) == {df[j].primary_cpv_name : j \in 1..Len(df)} \ {Null}

GroupCosts(df, key) ==
    LET In(r) == r.primary_cpv_name = key
    IN  Column(SelectSeq(df, In), "estimated_cost")

\* ['estimated_cost'].agg(['sum', 'count']).reset_index()
GroupAgg(df) ==
    {[primary_cpv_name |-> k, sum |-> SeqSum(GroupCosts(df, k)),
      count |-> Len(GroupCosts(df, k))] : k \in GroupKeys(df)}

\* sort_values('sum', ascending=False) with the default kind="quicksort",
\* which is not stable: every order of the rows that is non-increasing in
\* sum is a possible result
RECURSIVE SortValuesDesc(_)
SortValuesDesc(rows) ==
    IF rows = {} THEN {<<>>}
    ELSE UNION {{<<g>> \o rest : rest \in SortValuesDesc(rows \ {g})} :
                g \in {g \in rows : \A h \in rows : g.sum >= h.sum}}

\* .head(n)
DfHead(s, n) == IF Len(s) <= n THEN s ELSE SubSeq(s, 1, n)

\* lines 291-292: the possible values of category_value
CategoryRanking(df) == {DfHead(s, TopN) : s \in SortValuesDesc(GroupAgg(df))}

(* ------------------------------- state -------------------------------- *)
VARIABLES
    dbUrl,          \* os.getenv('DB_URL'): "missing", "malformed" or "ok"
    engineCached,   \* @st.cache_resource holds the engine of init_connection
    cacheValid,     \* @st.cache_data holds a table of load_tender_data
    cacheTable,     \* the table it holds
    cacheAge,       \* seconds since that table was stored, saturating at CacheTtl
    pc,             \* where the script run is
    df,             \* main's df
    sel,            \* the widgets' values of this run
    filtered,       \* main's filtered_df
    bucketed,       \* what create_cost_buckets returned in this run
    stats,          \* the metrics of this run
    bucket_counts,  \* the histogram's counts
    category_value, \* the ranking chart's rows
    steps,          \* what this run has shown or done, in order
    errors,         \* st.error calls of this run
    queries,        \* pd.read_sql_query calls of this run
    loads,          \* calls of load_tender_data of this run
    loadExc,        \* what load_tender_data raised in this run
    cacheAtLoad,    \* the cache at the call: "absent", "stale" or "fresh"
    arg,            \* the arguments of a function applied on its own
    ret             \* and what it returned

cacheVars == <<engineCached, cacheValid, cacheTable, cacheAge>>
runVars == <<df, sel, filtered, bucketed, stats, bucket_counts, category_value,
             steps, errors, queries, loads, loadExc, cacheAtLoad>>
fnVars == <<arg, ret>>
vars == <<dbUrl, cacheVars, pc, runVars, fnVars>>

NoSel == [min_cost |-> 0, max_cost |-> 0, selected_sector |-> ALL,
          selected_procedure |-> ALL]
NoBuckets == [raised |-> "", cost_bucket |-> <<>>, bucket_edges |-> <<>>,
              bucket_labels |-> <<>>]
NoStats == [total_value |-> 0, avg_cost_nan |-> FALSE, median_cost_nan |-> FALSE]
NoArg == [fn |-> "none"]

\* the rows the data source may hold in a render (a row without sector and
\* procedure has no category either)
DbRows ==
    {Row(c, s, p, IF s = Null /\ p = Null THEN Null ELSE "cpv01") :
        c \in {Pow10(1), Pow10(3)}, s \in {Null, "A"}, p \in {Null, "P"}}
\* the query's result: WHERE estimated_cost > 0 ORDER BY estimated_cost DESC
DbTables == {t \in SeqsUpTo(DbRows, MaxDbRows) : Len(t) > 0 /\ SortedDesc(t)}

Init ==
    /\ dbUrl \in {"missing", "malformed", "ok"}
    /\ engineCached = FALSE /\ cacheValid = FALSE /\ cacheTable = <<>>
    /\ cacheAge = 0
    /\ pc = "idle"
    /\ df = <<>> /\ sel = NoSel /\ filtered = <<>>
    /\ bucketed = NoBuckets /\ stats = NoStats /\ bucket_counts = <<>>
    /\ category_value = <<>> /\ steps = <<>> /\ errors = 0
    /\ queries = 0 /\ loads = 0 /\ loadExc = "none"
    /\ cacheAtLoad = "unset"
    /\ arg = NoArg /\ ret = <<>>

Between == pc \in {"idle", "done", "halted", "crashed"}

(* ------------------------------ the clock ----------------------------- *)
Tick ==
    /\ Between
    /\ cacheValid /\ cacheAge < CacheTtl
    /\ cacheAge' = IF cacheAge + TickSeconds > CacheTtl THEN CacheTtl
                   ELSE cacheAge + TickSeconds
    /\ UNCHANGED <<dbUrl, engineCached, cacheValid, cacheTable, pc, runVars, fnVars>>

(* ------------------------------ a render ------------------------------ *)
\* a widget change or a page load reruns the script from the top
StartRender ==
    /\ Between
    /\ pc' = "load"
    /\ df' = <<>> /\ sel' = NoSel /\ filtered' = <<>>
    /\ bucketed' = NoBuckets /\ stats' = NoStats /\ bucket_counts' = <<>>
    /\ category_value' = <<>> /\ steps' = <<>> /\ errors' = 0
    /\ queries' = 0 /\ loads' = 0 /\ loadExc' = "none"
    /\ cacheAtLoad' = "unset"
    /\ UNCHANGED <<dbUrl, cacheVars, fnVars>>

\* @st.cache_data(ttl=600): the call is served from the cache while an entry
\* younger than the ttl exists
CacheHitStale == cacheValid
CacheHit == cacheValid /\ cacheAge < CacheTtl

\* except Exception as e: st.stop() raises StopException, a BaseException
MainHandlerCatchesAll(exc) == TRUE
MainHandlerCatches(exc) == exc # "StopException"

\* st.stop() in the handler ends the run
AfterLoadErrorRetry == "load"
AfterLoadError == "halted"

\* lines 125-131, for a call of load_tender_data that raised exc after
\* shown st.error calls of its own
MainOnException(exc, shown) ==
    /\ loadExc' = exc
    /\ IF MainHandlerCatches(exc)
       THEN /\ errors' = errors + shown + 1
            /\ steps' = steps \o [i \in 1..shown + 1 |-> "error"]
            /\ pc' = AfterLoadError
       ELSE /\ errors' = errors + shown
            /\ steps' = steps \o [i \in 1..shown |-> "error"]
            /\ pc' = "halted"

LoadCall ==
    /\ pc = "load"
    /\ loads' = loads + 1
    /\ cacheAtLoad' = IF ~cacheValid THEN "absent"
                      ELSE IF cacheAge < CacheTtl THEN "fresh" ELSE "stale"

\* the cache answers: no line of load_tender_data runs
LoadCached ==
    /\ LoadCall
    /\ CacheHit
    /\ df' = cacheTable
    /\ steps' = Append(steps, "success")
    /\ pc' = "widgets"
    /\ UNCHANGED <<dbUrl, cacheVars, sel, filtered, bucketed, stats, bucket_counts,
                   category_value, errors, queries, loadExc, fnVars>>

\* init_connection without DB_URL: st.error, st.stop
LoadConfigMissing ==
    /\ LoadCall
    /\ ~CacheHit /\ ~engineCached /\ dbUrl = "missing"
    /\ MainOnException("StopException", 1)
    /\ cacheValid' = FALSE
    /\ UNCHANGED <<dbUrl, engineCached, cacheTable, cacheAge, df, sel, filtered,
                   bucketed, stats, bucket_counts, category_value, queries, fnVars>>

\* create_engine(db_url) raises on a URL it cannot parse
LoadEngineFails ==
    /\ LoadCall
    /\ ~CacheHit /\ ~engineCached /\ dbUrl = "malformed"
    /\ MainOnException("Exception", 0)
    /\ cacheValid' = FALSE
    /\ UNCHANGED <<dbUrl, engineCached, cacheTable, cacheAge, df, sel, filtered,
                   bucketed, stats, bucket_counts, category_value, queries, fnVars>>

\* pd.read_sql_query raises: the connection or the query fails
LoadQueryFails ==
    /\ LoadCall
    /\ ~CacheHit /\ (engineCached \/ dbUrl = "ok")
    /\ engineCached' = TRUE
    /\ queries' = queries + 1
    /\ MainOnException("Exception", 0)
    /\ cacheValid' = FALSE
    /\ UNCHANGED <<dbUrl, cacheTable, cacheAge, df, sel, filtered, bucketed, stats,
                   bucket_counts, category_value, fnVars>>

\* the query returns a table, which the cache stores
LoadQueryOk ==
    /\ LoadCall
    /\ ~CacheHit /\ (engineCached \/ dbUrl = "ok")
    /\ engineCached' = TRUE
    /\ queries' = queries + 1
    /\ \E t \in DbTables :
          /\ df' = t
          /\ cacheTable' = t
    /\ cacheValid' = TRUE
    /\ cacheAge' = 0
    /\ steps' = Append(steps, "success")
    /\ pc' = "widgets"
    /\ UNCHANGED <<dbUrl, sel, filtered, bucketed, stats, bucket_counts,
                   category_value, errors, loadExc, fnVars>>

\* the slider's positions between the table's least and greatest cost
SliderValues(t) ==
    {c \in Costs : /\ c >= SeqMin(Column(t, "estimated_cost"))
                   /\ c <= SeqMax(Column(t, "estimated_cost"))}

\* lines 133-163: the widgets' values and the filters
Filter ==
    /\ pc = "widgets"
    /\ \E lo \in SliderValues(df), hi \in SliderValues(df),
          s \in Options(df, "procurement_sector_code"),
          p \in Options(df, "procedure_type_code") :
          /\ lo <= hi
          /\ sel' = [min_cost |-> lo, max_cost |-> hi, selected_sector |-> s,
                     selected_procedure |-> p]
          /\ filtered' = ApplyFilters(df, lo, hi, s, p)
    /\ steps' = Append(steps, "filter")
    /\ pc' = "bucket"
    /\ UNCHANGED <<dbUrl, cacheVars, df, bucketed, stats, bucket_counts,
                   category_value, errors, queries, loads, loadExc, cacheAtLoad,
                   fnVars>>

\* lines 165-167; an error of create_cost_buckets is caught nowhere
Bucket ==
    /\ pc = "bucket"
    /\ IF Len(filtered) > 0
       THEN LET r == create_cost_buckets(filtered, NumBuckets)
            IN  /\ bucketed' = r
                /\ steps' = Append(steps, IF r.raised # "" THEN "exception" ELSE "buckets")
                /\ pc' = IF r.raised # "" THEN "crashed" ELSE "stats"
       ELSE /\ UNCHANGED <<bucketed, steps>>
            /\ pc' = "stats"
    /\ UNCHANGED <<dbUrl, cacheVars, df, sel, filtered, stats, bucket_counts,
                   category_value, errors, queries, loads, loadExc, cacheAtLoad,
                   fnVars>>

\* lines 170-205: the four metrics
Metrics ==
    /\ pc = "stats"
    /\ stats' = SummaryStatistics(filtered)
    /\ steps' = Append(steps, "metrics")
    /\ pc' = "empty_check"
    /\ UNCHANGED <<dbUrl, cacheVars, df, sel, filtered, bucketed, bucket_counts,
                   category_value, errors, queries, loads, loadExc, cacheAtLoad,
                   fnVars>>

\* lines 209-211
EmptyCheck ==
    /\ pc = "empty_check"
    /\ IF Len(filtered) = 0
       THEN /\ steps' = Append(steps, "warning")
            /\ pc' = "done"
       ELSE /\ UNCHANGED steps
            /\ pc' = "charts"
    /\ UNCHANGED <<dbUrl, cacheVars, df, sel, filtered, bucketed, stats,
                   bucket_counts, category_value, errors, queries, loads, loadExc,
                   cacheAtLoad, fnVars>>

\* lines 213-332: the histogram, the ranking and the other charts
Charts ==
    /\ pc = "charts"
    /\ bucket_counts' = BucketCounts(bucketed.cost_bucket, NumBuckets)
    /\ category_value' \in CategoryRanking(filtered)
    /\ steps' = Append(steps, "charts")
    /\ pc' = "done"
    /\ UNCHANGED <<dbUrl, cacheVars, df, sel, filtered, bucketed, stats, errors,
                   queries, loads, loadExc, cacheAtLoad, fnVars>>

Next ==
    \/ Tick
    \/ StartRender
    \/ LoadCached
    \/ LoadConfigMissing
    \/ LoadEngineFails
    \/ LoadQueryFails
    \/ LoadQueryOk
    \/ Filter
    \/ Bucket
    \/ Metrics
    \/ EmptyCheck
    \/ Charts

Spec == Init /\ [][Next]_vars

(* ------------------- the functions applied on their own --------------- *)
SortedTables(rows, n) == {t \in SeqsUpTo(rows, n) : SortedDesc(t)}

Args(fn, t, n, lo, hi, s, p) ==
    [fn |-> fn, df |-> t, num_buckets |-> n, min_cost |-> lo, max_cost |-> hi,
     selected_sector |-> s, selected_procedure |-> p]

\* bucket counts that divide 100, so that every edge is 10 ** (j / 100)
BucketCountChoices == {1, 2, 4, 5, NumBuckets}

BucketArgs ==
    {Args("create_cost_buckets", t, n, 0, 0, ALL, ALL) :
        t \in SortedTables({Row(c, Null, Null, Null) : c \in Costs}, MaxRows) \ {<<>>},
        n \in BucketCountChoices}

FilterCosts == {Pow10(0), Pow10(1), Pow10(2)}
FilterArgs ==
    {Args("apply_filters", t, 0, lo, hi, s, p) :
        t \in SortedTables({Row(c, rs, rp, Null) : c \in FilterCosts,
                            rs \in {Null, "A"}, rp \in {Null, "P"}}, MaxFilterRows),
        lo \in FilterCosts, hi \in FilterCosts,
        s \in {ALL, "A", "B"}, p \in {ALL, "P"}}

\* tables of more than TopN categories, their costs equal in pairs
CpvNames ==
    <<"cpv01", "cpv02", "cpv03", "cpv04", "cpv05", "cpv06",
      "cpv07", "cpv08", "cpv09", "cpv10", "cpv11", "cpv12">>
WideExp(j, shift) ==
    IF MaxExp - ((j + shift) \div 2) < 0 THEN 0 ELSE MaxExp - ((j + shift) \div 2)
WideTables ==
    {[j \in 1..m |-> Row(Pow10(WideExp(j, shift)), Null, Null,
                         IF j = nullAt THEN Null ELSE CpvNames[j])] :
        m \in {TopN + 1, TopN + 2}, shift \in {0, 1}, nullAt \in {0, 1}}

RankArgs ==
    {Args("category_ranking", t, 0, 0, 0, ALL, ALL) :
        t \in WideTables \cup
              (SortedTables({Row(c, Null, Null, n) : c \in {Pow10(0), Pow10(1)},
                             n \in {Null, "cpv01", "cpv02", "cpv03"}}, MaxRows)
               \ {<<>>})}

FnInit ==
    /\ dbUrl = "ok"
    /\ engineCached = FALSE /\ cacheValid = FALSE /\ cacheTable = <<>>
    /\ cacheAge = 0
    /\ pc = "call"
    /\ df = <<>> /\ sel = NoSel /\ filtered = <<>>
    /\ bucketed = NoBuckets /\ stats = NoStats /\ bucket_counts = <<>>
    /\ category_value = <<>> /\ steps = <<>> /\ errors = 0
    /\ queries = 0 /\ loads = 0 /\ loadExc = "none"
    /\ cacheAtLoad = "unset"
    /\ arg \in BucketArgs \cup FilterArgs \cup RankArgs
    /\ ret = <<>>

CallCreateCostBuckets ==
    /\ pc = "call" /\ arg.fn = "create_cost_buckets"
    /\ ret' = create_cost_buckets(arg.df, arg.num_buckets)
    /\ pc' = "return"
    /\ UNCHANGED <<dbUrl, cacheVars, runVars, arg>>

CallApplyFilters ==
    /\ pc = "call" /\ arg.fn = "apply_filters"
    /\ ret' = ApplyFilters(arg.df, arg.min_cost, arg.max_cost, arg.selected_sector,
                           arg.selected_procedure)
    /\ pc' = "return"
    /\ UNCHANGED <<dbUrl, cacheVars, runVars, arg>>

CallCategoryRanking ==
    /\ pc = "call" /\ arg.fn = "category_ranking"
    /\ ret' \in CategoryRanking(arg.df)
    /\ pc' = "return"
    /\ UNCHANGED <<dbUrl, cacheVars, runVars, arg>>

FnNext ==
    \/ CallCreateCostBuckets
    \/ CallApplyFilters
    \/ CallCategoryRanking

SpecFn == FnInit /\ [][FnNext]_vars

(* ------------------------------- claims ------------------------------- *)
Returned(fn) == pc = "return" /\ arg.fn = fn
ArgCost(j) == arg.df[j].estimated_cost
ArgMin == SeqMin(Column(arg.df, "estimated_cost"))
ArgMax == SeqMax(Column(arg.df, "estimated_cost"))
\* edge i of the returned edges, i counted from 0 as the buckets are
RetEdge(i) == ret.bucket_edges[i + 1]
CostLeEdge(c, e) == CostLtEdge(c, e) \/ CostEqEdge(c, e)

\* C1: for every non-empty table of positive costs and every bucket count,
\* create_cost_buckets yields bucketCount buckets over bucketCount + 1
\* non-decreasing edges, gives every record one bucket index in
\* [0, bucketCount), and the per-bucket counts sum to the number of records.
C1_EveryRecordBucketed ==
    Returned("create_cost_buckets") =>
        /\ ret.raised = ""
        /\ Len(ret.bucket_labels) = arg.num_buckets
        /\ Len(ret.bucket_edges) = arg.num_buckets + 1
        /\ \A i \in 0..arg.num_buckets - 1 : ~EdgeLt(RetEdge(i + 1), RetEdge(i))
        /\ \A j \in 1..Len(arg.df) : ret.cost_bucket[j] \in 0..arg.num_buckets - 1
        /\ SeqSum(BucketCounts(ret.cost_bucket, arg.num_buckets)) = Len(arg.df)

\* C2: create_cost_buckets completes without an error for every non-empty
\* table of positive costs; when all rows share one cost every row is in
\* bucket 0, and when there are fewer rows than buckets it still returns
\* bucketCount buckets, at most as many of them non-empty as there are rows.
C2_CompletesNormally ==
    Returned("create_cost_buckets") =>
        /\ ret.raised = ""
        /\ ArgMin = ArgMax => \A j \in 1..Len(arg.df) : ret.cost_bucket[j] = 0
        /\ Len(arg.df) < arg.num_buckets =>
              /\ Len(ret.bucket_labels) = arg.num_buckets
              /\ Cardinality({i \in 1..arg.num_buckets :
                     BucketCounts(ret.cost_bucket, arg.num_buckets)[i] > 0})
                 <= Len(arg.df)

\* C3: in a render whose filtered table is empty the summary statistics are
\* never computed or shown: the empty-table check comes first.
C3_NoStatisticsOnEmpty ==
    (pc \in {"bucket", "stats", "empty_check", "charts", "done"} /\ Len(filtered) = 0) =>
        /\ \A k \in 1..Len(steps) : steps[k] # "metrics"
        /\ ~stats.avg_cost_nan /\ ~stats.median_cost_nan

\* C4: create_cost_buckets puts each record of the least cost in bucket 0
\* and each record of the greatest cost in bucket bucketCount - 1, also
\* when the two costs are equal.
C4_MinFirstMaxLast ==
    Returned("create_cost_buckets") =>
        /\ ret.raised = ""
        /\ \A j \in 1..Len(arg.df) :
              /\ ArgCost(j) = ArgMin => ret.cost_bucket[j] = 0
              /\ ArgCost(j) = ArgMax => ret.cost_bucket[j] = arg.num_buckets - 1

\* C5, as claimed: a record is in the bucket i with edge[i] <= cost <
\* edge[i+1] (a cost equal to an interior edge is in the bucket the edge
\* opens), except the greatest cost, which is in the last bucket.
C5_HalfOpenRight ==
    (Returned("create_cost_buckets") /\ ret.raised = "") =>
        \A j \in 1..Len(arg.df) :
            LET i == ret.cost_bucket[j]
            IN  /\ i \in 0..arg.num_buckets - 1
                /\ \/ /\ CostLeEdge(ArgCost(j), RetEdge(i)) => CostEqEdge(ArgCost(j), RetEdge(i))
                      /\ ~CostLtEdge(ArgCost(j), RetEdge(i))
                      /\ CostLtEdge(ArgCost(j), RetEdge(i + 1))
                   \/ ArgCost(j) = ArgMax /\ i = arg.num_buckets - 1

\* C5, amended: a record that create_cost_buckets gives a bucket i has
\* edge[i] < cost <= edge[i+1] (a cost equal to an interior edge is in the
\* bucket the edge closes), except a cost equal to edge[0], which is in
\* bucket 0.
C5_HalfOpenLeft ==
    (Returned("create_cost_buckets") /\ ret.raised = "") =>
        \A j \in 1..Len(arg.df) :
            LET i == ret.cost_bucket[j]
            IN  \/ i = NoBucket
                \/ /\ i \in 0..arg.num_buckets - 1
                   /\ \/ /\ ~CostLeEdge(ArgCost(j), RetEdge(i))
                         /\ CostLeEdge(ArgCost(j), RetEdge(i + 1))
                      \/ i = 0 /\ CostEqEdge(ArgCost(j), RetEdge(0))

\* C5: a record whose cost equals an interior edge got a bucket
C5_Witness ==
    /\ Returned("create_cost_buckets") /\ ret.raised = ""
    /\ \E j \in 1..Len(arg.df), i \in 1..arg.num_buckets - 1 :
          /\ CostEqEdge(ArgCost(j), RetEdge(i))
          /\ ret.cost_bucket[j] = i - 1

\* C6: without DB_URL a render reports one error and halts before any
\* query: no engine is created, no query runs, no later step executes, and
\* the halt raised in init_connection is not taken by main's error handler.
C6_ConfigMissingHalts ==
    dbUrl = "missing" =>
        /\ ~engineCached /\ ~cacheValid /\ queries = 0
        /\ pc \in {"idle", "load", "halted"}
        /\ loads > 0 =>
              /\ pc = "halted"
              /\ loadExc = "StopException"
              /\ errors = 1
              /\ steps = <<"error">>
              /\ df = <<>> /\ filtered = <<>> /\ bucketed = NoBuckets
              /\ stats = NoStats /\ category_value = <<>>

\* C6: a render without DB_URL has called load_tender_data and halted
C6_Witness == dbUrl = "missing" /\ loads = 1 /\ pc = "halted"

\* C7: when the load fails the render reports the failure once and halts:
\* the load is not retried in that render and no filter, bucketing,
\* statistics or chart step runs after it.
C7_LoadFailureHalts ==
    loadExc = "Exception" =>
        /\ pc = "halted"
        /\ errors = 1
        /\ loads = 1
        /\ queries <= 1
        /\ steps = <<"error">>
        /\ df = <<>> /\ sel = NoSel /\ filtered = <<>> /\ bucketed = NoBuckets
        /\ stats = NoStats /\ bucket_counts = <<>> /\ category_value = <<>>

\* C7: a render whose query failed
C7_Witness == loadExc = "Exception" /\ queries = 1 /\ pc = "halted"

\* C8: load_tender_data queries the data source only when no table is
\* cached or the cached one has reached the 600-second ttl, and every other
\* render is served the cached table without a query; a failed load leaves
\* nothing cached; what is queried does not depend on the filters.
C8_QueryOnlyWhenStale ==
    loads > 0 =>
        /\ loads = 1 /\ queries <= 1
        /\ queries = 1 => cacheAtLoad \in {"absent", "stale"}
        /\ cacheAtLoad = "fresh" =>
              queries = 0 /\ loadExc = "none" /\ cacheValid /\ df = cacheTable
        /\ (loadExc = "none" /\ cacheAtLoad \in {"absent", "stale"}) =>
              queries = 1 /\ cacheValid /\ df = cacheTable
        /\ loadExc # "none" => ~cacheValid /\ df = <<>>

\* C8: a render that found the cached table expired, queried again and
\* went on to the end
C8_Witness == cacheAtLoad = "stale" /\ queries = 1 /\ pc = "done"

\* the three filters applied in the order given by a permutation of 1..3
FilterStep(k, t) ==
    CASE k = 1 -> FilterCost(t, arg.min_cost, arg.max_cost)
      [] k = 2 -> FilterSector(t, arg.selected_sector)
      [] k = 3 -> FilterProcedure(t, arg.selected_procedure)
Orders == {o \in [1..3 -> 1..3] : \A i, j \in 1..3 : o[i] = o[j] => i = j}
FilterInOrder(o) == FilterStep(o[3], FilterStep(o[2], FilterStep(o[1], arg.df)))

\* the rows a filter of the claim keeps
ClaimKeeps(r) ==
    /\ arg.min_cost <= r.estimated_cost /\ r.estimated_cost <= arg.max_cost
    /\ arg.selected_sector # ALL =>
          r.procurement_sector_code # Null
          /\ r.procurement_sector_code = arg.selected_sector
    /\ arg.selected_procedure # ALL =>
          r.procedure_type_code # Null
          /\ r.procedure_type_code = arg.selected_procedure

\* C9: the filters are a set intersection: every order of the three
\* predicates gives the rows main's order gives, for every cost range (also
\* min > max) and every filter value, and a row whose field is missing is
\* never kept by a filter value other than "All".
C9_FiltersCommute ==
    Returned("apply_filters") =>
        /\ \A o \in Orders : FilterInOrder(o) = ret
        /\ ret = SelectSeq(arg.df, ClaimKeeps)
        /\ arg.min_cost > arg.max_cost => ret = <<>>

\* C9: a table with a row of missing sector inside the cost range, filtered
\* by a sector, some row kept
C9_Witness ==
    /\ Returned("apply_filters")
    /\ arg.selected_sector # ALL /\ ret # <<>>
    /\ \E j \in 1..Len(arg.df) :
          /\ arg.df[j].procurement_sector_code = Null
          /\ arg.min_cost <= arg.df[j].estimated_cost
          /\ arg.df[j].estimated_cost <= arg.max_cost
          /\ (arg.selected_procedure # ALL =>
                arg.df[j].procedure_type_code = arg.selected_procedure)

\* the ranking of the claim: a group per category, the missing category
\* one of them, by descending sum, equal sums in the order the groups are
\* first met in the table, the first TopN
FirstRow(t, k) == CHOOSE j \in 1..Len(t) :
    t[j].primary_cpv_name = k /\ \A i \in 1..j - 1 : t[i].primary_cpv_name # k
ClaimGroups(t) ==
    {[primary_cpv_name |-> k, sum |-> SeqSum(GroupCosts(t, k)),
      count |-> Len(GroupCosts(t, k))] : k \in {t[j].primary_cpv_name : j \in 1..Len(t)}}
RECURSIVE ClaimOrder(_, _)
ClaimOrder(t, groups) ==
    IF groups = {} THEN <<>>
    ELSE LET g == CHOOSE g \in groups : \A h \in groups \ {g} :
                     \/ g.sum > h.sum
                     \/ /\ g.sum = h.sum
                        /\ FirstRow(t, g.primary_cpv_name) < FirstRow(t, h.primary_cpv_name)
         IN  <<g>> \o ClaimOrder(t, groups \ {g})
ClaimRanking(t) ==
    LET s == ClaimOrder(t, ClaimGroups(t))
    IN  IF Len(s) <= TopN THEN s ELSE SubSeq(s, 1, TopN)

\* C10, as claimed: the ranking has a group for the rows of missing
\* category, at most 10 groups by descending sum, equal sums in the order
\* the groups are first met.
C10_RankingAsClaimed ==
    Returned("category_ranking") => ret = ClaimRanking(arg.df)

NamedRows(t, k) == {j \in 1..Len(t) : t[j].primary_cpv_name = k}
RECURSIVE CostOfRows(_, _)
CostOfRows(t, rows) ==
    IF rows = {} THEN 0
    ELSE LET j == CHOOSE j \in rows : TRUE
         IN  t[j].estimated_cost + CostOfRows(t, rows \ {j})
Names(t) == {t[j].primary_cpv_name : j \in 1..Len(t)} \ {Null}

\* C10, amended: the ranking has one row per category present, none for
\* the rows of missing category, each with the sum and the count of its
\* rows' costs; it holds the min(10, number of categories) categories of
\* greatest sum, in an order of non-increasing sum (the order of equal sums
\* is not fixed).
C10_RankingWithoutMissing ==
    Returned("category_ranking") =>
        /\ Len(ret) = IF Cardinality(Names(arg.df)) <= TopN
                      THEN Cardinality(Names(arg.df)) ELSE TopN
        /\ \A i \in 1..Len(ret) :
              /\ ret[i].primary_cpv_name \in Names(arg.df)
              /\ ret[i].sum = CostOfRows(arg.df, NamedRows(arg.df, ret[i].primary_cpv_name))
              /\ ret[i].count = Cardinality(NamedRows(arg.df, ret[i].primary_cpv_name))
        /\ \A i, j \in 1..Len(ret) :
              /\ i < j => ret[i].sum >= ret[j].sum
              /\ i # j => ret[i].primary_cpv_name # ret[j].primary_cpv_name
        /\ \A k \in Names(arg.df) :
              \/ \E i \in 1..Len(ret) : ret[i].primary_cpv_name = k
              \/ \A i \in 1..Len(ret) :
                    ret[i].sum >= CostOfRows(arg.df, NamedRows(arg.df, k))

\* C10: a table of more than 10 categories and a row of missing category,
\* ranked, two of the ranked groups of equal sum
C10_Witness ==
    /\ Returned("category_ranking")
    /\ Cardinality(Names(arg.df)) > TopN
    /\ \E j \in 1..Len(arg.df) : arg.df[j].primary_cpv_name = Null
    /\ Len(ret) = TopN
    /\ \E i \in 1..Len(ret) - 1 : ret[i].sum = ret[i + 1].sum

====
